---------------------------- MODULE Spec2Model ----------------------------
(***************************************************************************)
(* Model of firebase-firestore-helper (src/src/index.js): the per-entity   *)
(* accessors add / getById / getBy / getAll / deleteById / editById /      *)
(* clearCache over a document store, with the module-level cache.          *)
(*                                                                         *)
(* Every asynchronous accessor runs in three steps: Call (the code up to   *)
(* its await, which issues the store request), Serve (the store processes  *)
(* the request and fixes its response) and Resume (the code after the      *)
(* await).  SeqSpec starts a call only when no other call is in flight;    *)
(* Spec lets up to MaxInFlight calls of one caching accessor overlap;      *)
(* ReadSpec lets getById calls overlap while nothing writes the store;     *)
(* QuerySpec runs getBy on query descriptors of every shape; FacadeSpec    *)
(* makes every call through the functions of actionsHelperCreator.         *)
(* PartSpec builds several caching accessors for two collections;         *)
(* CachedSpec uses one caching accessor only, one call at a time.          *)
(***************************************************************************)
EXTENDS Integers, FiniteSets, Sequences, TLC

\* ------------------------------------------------------------------ bounds
MaxInFlight == 2

\* ------------------------------------------------------------- the domain
Entities == {"users"}

\* Document ids.  "" is a scalar that JavaScript treats as falsy.
Ids == {"a", ""}

\* The id of a document that has no `id` field (typeof data.id === 'undefined'),
\* and the argument of clearCache() called with no key.
NoId == "<undefined>"

\* Field values.  PlainVal is JSON-representable; NaNVal is a value that
\* JSON.stringify writes as null (NaN, Infinity); BigVal is a value on which
\* JSON.stringify throws (a BigInt, a circular object); NullVal is JSON null.
PlainVal == "1"
NaNVal == "NaN"
BigVal == "10n"
NullVal == "null"
InputVals == {PlainVal, NaNVal, BigVal}

\* JavaScript values that flow through the accessors.
Undef == [kind |-> "undefined"]
Null == [kind |-> "null"]
Ack == [kind |-> "ack"]
ErrorOf(msg) == [kind |-> "error", msg |-> msg]
Doc(id, v) == [kind |-> "doc", id |-> id, v |-> v]
List(items) == [kind |-> "list", items |-> items]

\* Maps with a finite domain (JavaScript objects used as dictionaries).
EmptyMap == [x \in {} |-> Undef]
MapPut(m, k, val) == [x \in (DOMAIN m) \cup {k} |-> IF x = k THEN val ELSE m[x]]
MapDel(m, k) == [x \in (DOMAIN m) \ {k} |-> m[x]]

\* ------------------------------------------------------------------ clone
\* JSON.stringify throws on a BigInt anywhere inside the value.
Stringifiable(o) ==
  CASE o.kind = "doc" -> o.v # BigVal
    [] o.kind = "list" ->
         \A k \in DOMAIN o.items : o.items[k].kind = "doc" => o.items[k].v # BigVal
    [] OTHER -> TRUE

\* JSON.parse(JSON.stringify(o)) on a value stringify accepts: NaN becomes
\* null, an undefined array element becomes null.
JsonRoundTrip(o) ==
  CASE o.kind = "doc" -> [o EXCEPT !.v = IF o.v = NaNVal THEN NullVal ELSE o.v]
    [] o.kind = "list" ->
         List([k \in DOMAIN o.items |->
                 LET x == o.items[k] IN
                 CASE x.kind = "undefined" -> Null
                   [] x.kind = "doc" ->
                        [x EXCEPT !.v = IF x.v = NaNVal THEN NullVal ELSE x.v]
                   [] OTHER -> x])
    [] OTHER -> o

\* clone(o): val is the value returned, same tells whether the value returned
\* is the very object o (the catch branch) rather than a new object.
clone(o) ==
  IF o.kind = "undefined" THEN [val |-> Undef, same |-> FALSE]
  ELSE IF Stringifiable(o) THEN [val |-> JsonRoundTrip(o), same |-> FALSE]
  ELSE [val |-> o, same |-> TRUE]

\* ------------------------------------------------------------------ state
VARIABLES
  accessors,  \* the accessors helperCreator has returned: [entity, useCache]
  cache,      \* the module-level cache: entity -> (id -> entry)
  store,      \* the document store: entity -> (id -> document)
  calls       \* per slot: the call in flight, or the call that completed there

vars == <<accessors, cache, store, calls>>

Slots == 1 .. MaxInFlight
Idle == [op |-> "idle", phase |-> "idle", before |-> "none"]

\* A cache entry: the value held, and whether the caller holds a reference
\* to the very object held.
Entry(val, live) == [val |-> val, live |-> live]

Accessor(entity, useCache) == [entity |-> entity, useCache |-> useCache]

Init ==
  /\ accessors = {}
  /\ cache = EmptyMap
  /\ store = [e \in Entities |-> EmptyMap]
  /\ calls = [s \in Slots |-> Idle]

\* ------------------------------------------------------------ bookkeeping
InFlight(s) == calls[s].phase \in {"sent", "served"}
HasFree == \E s \in Slots : ~InFlight(s)
AllIdle == \A s \in Slots : ~InFlight(s)
FreeSlot == CHOOSE s \in Slots : ~InFlight(s) /\ \A t \in Slots : t < s => InFlight(t)

Part(entity) == cache[entity]
SetPart(entity, part) == [cache EXCEPT ![entity] = part]

\* What the partition of a caching accessor holds for a call's id.
EntryKind(acc, arg) ==
  IF ~acc.useCache \/ "id" \notin DOMAIN arg THEN "none"
  ELSE IF arg.id \notin DOMAIN Part(acc.entity) THEN "absent"
  ELSE IF Part(acc.entity)[arg.id].val.kind = "undefined" THEN "tombstone"
  ELSE "doc"

\* The record of a call that has returned `result` or thrown it (an error);
\* storeCalled tells whether the call issued a store request, before what
\* the partition held for the call's id when the call's last step began.
Completed(op, acc, arg, result, storeCalled) ==
  [op |-> op, acc |-> acc, arg |-> arg, phase |-> "done",
   resp |-> [ok |-> FALSE, value |-> Undef],
   result |-> result, storeCalled |-> storeCalled,
   before |-> EntryKind(acc, arg)]

\* The record of a call whose store request has been issued.
Sent(op, acc, arg) ==
  [op |-> op, acc |-> acc, arg |-> arg, phase |-> "sent",
   resp |-> [ok |-> FALSE, value |-> Undef],
   result |-> Undef, storeCalled |-> TRUE, before |-> "none"]

Start(op, acc, arg) == calls' = [calls EXCEPT ![FreeSlot] = Sent(op, acc, arg)]

Return(op, acc, arg, result) ==
  calls' = [calls EXCEPT ![FreeSlot] = Completed(op, acc, arg, result, FALSE)]

\* ---------------------------------------------------------- helperCreator
\* A construction that gives every caching accessor a fresh partition.
Allocate_Reset(entity, useCache) ==
  IF useCache THEN MapPut(cache, entity, EmptyMap) ELSE cache

\* Lines 226-228: if (useCache && !cache[entity]) cache[entity] = {}
Allocate(entity, useCache) ==
  IF useCache /\ entity \notin DOMAIN cache
  THEN MapPut(cache, entity, EmptyMap)
  ELSE cache

helperCreator(entity, useCache) ==
  /\ cache' = Allocate(entity, useCache)
  /\ accessors' = accessors \cup {Accessor(entity, useCache)}
  /\ UNCHANGED <<store, calls>>

\* -------------------------------------------------------------------- add
\* Line 38: cache[entity][data.id] = clone(data).  When clone falls back to
\* returning data itself, the entry is the caller's object.
AddCacheWrite(part, data) ==
  LET c == clone(data) IN MapPut(part, data.id, Entry(c.val, c.same))

\* A validation that tests for null instead of undefined.
AddRejects_NullOnly(data) == data.id = NullVal

\* Line 31: typeof data.id === 'undefined'
AddRejects(data) == data.id = NoId

\* Lines 31-35: validation, then the store request.
CallAdd(acc, data) ==
  /\ acc \in accessors /\ HasFree
  /\ IF AddRejects(data)
     THEN Return("add", acc, data, ErrorOf("'id' is required"))
     ELSE Start("add", acc, data)
  /\ UNCHANGED <<accessors, cache, store>>

\* Lines 37-41.
ResumeAdd(r) ==
  [cache |-> IF r.acc.useCache
             THEN SetPart(r.acc.entity, AddCacheWrite(Part(r.acc.entity), r.arg))
             ELSE cache,
   result |-> r.resp.value]

\* ---------------------------------------------------------------- getById
\* A hit test that consults the partition whatever the accessor's flag is.
GetByIdHit_AnyAccessor(acc, id) ==
  acc.entity \in DOMAIN cache /\ id \in DOMAIN Part(acc.entity)

\* Line 47: useCache && cache[entity].hasOwnProperty(id)
GetByIdHit(acc, id) == acc.useCache /\ id \in DOMAIN Part(acc.entity)

\* Line 48: return clone(cache[entity][id])
GetByIdCached(part, id) == clone(part[id].val)

\* A getById that does not cache what it fetched.
GetByIdCacheWrite_Skip(part, id, data) == part

\* A write that caches only the documents that were found.
GetByIdCacheWrite_FoundOnly(part, id, data) ==
  IF data.kind = "undefined" THEN part
  ELSE LET c == clone(data) IN MapPut(part, id, Entry(c.val, c.same))

\* Line 55: cache[entity][id] = clone(data); line 58 returns data itself, so
\* when clone falls back to data the entry is the object the caller receives.
GetByIdCacheWrite(part, id, data) ==
  LET c == clone(data) IN MapPut(part, id, Entry(c.val, c.same))

CallGetById(acc, id) ==
  /\ acc \in accessors /\ HasFree
  /\ IF GetByIdHit(acc, id)
     THEN LET c == GetByIdCached(Part(acc.entity), id) IN
          /\ Return("getById", acc, [id |-> id], c.val)
          /\ cache' = IF c.same
                      THEN [cache EXCEPT ![acc.entity][id].live = TRUE]
                      ELSE cache
     ELSE /\ Start("getById", acc, [id |-> id])
          /\ UNCHANGED cache
  /\ UNCHANGED <<accessors, store>>

\* Lines 52-58.
ResumeGetById(r) ==
  [cache |-> IF r.acc.useCache
             THEN SetPart(r.acc.entity,
                          GetByIdCacheWrite(Part(r.acc.entity), r.arg.id, r.resp.value))
             ELSE cache,
   result |-> r.resp.value]

\* ------------------------------------------------------------------ getBy
\* A query descriptor { where, orderBy, limit }.  Field names, operators,
\* directions and values are strings; a pair or a triple is a tuple of them.
\*
\* where:   absent; a mapping, written as its <<key, value>> pairs in the
\*          order Object.keys lists them; or a list of conditions, each a
\*          mapping or an array of arguments (a [field, operator, value]
\*          triple).
NoWhere == [shape |-> "absent", pairs |-> <<>>, conditions |-> <<>>]
WhereMapping(pairs) == [shape |-> "mapping", pairs |-> pairs, conditions |-> <<>>]
WhereList(conditions) == [shape |-> "list", pairs |-> <<>>, conditions |-> conditions]
MappingCondition(pairs) == [isArray |-> FALSE, items |-> pairs]
ArrayCondition(args) == [isArray |-> TRUE, items |-> <<args>>]

\* orderBy: absent; a string (the field); an array whose first element is a
\*          string (a [field, direction] pair); an array of such arrays; a
\*          value that is neither a string nor an array (a number, an
\*          object); or an array of values that are neither strings nor
\*          arrays ([5, 6]).
NoOrderBy == [shape |-> "absent", items |-> <<>>]
OrderByString(field) == [shape |-> "string", items |-> <<<<field>>>>]
OrderByPair(pair) == [shape |-> "pair", items |-> <<pair>>]
OrderByList(pairs) == [shape |-> "list", items |-> pairs]
OrderByScalar == [shape |-> "scalar", items |-> <<>>]
OrderByScalars == [shape |-> "scalars", items |-> <<>>]

\* limit: absent, or a number.
NoLimit == -1

Wheres == {NoWhere, WhereMapping(<<<<"v", PlainVal>>>>)}
Limits == {NoLimit, 0, 1, 2}
Params == [where : Wheres, orderBy : {NoOrderBy}, limit : Limits]

\* Lines 92-94 and 99-101: Object.keys(condition).forEach(key =>
\* query = query.where(key, '=', condition[key])).
RECURSIVE WhereKeys(_, _)
WhereKeys(filters, pairs) ==
  IF pairs = <<>> THEN filters
  ELSE WhereKeys(Append(filters, <<Head(pairs)[1], "=", Head(pairs)[2]>>),
                 Tail(pairs))

\* A translation of the list form that keeps the array conditions only.
RECURSIVE WhereConditions_ArraysOnly(_, _)
WhereConditions_ArraysOnly(filters, conditions) ==
  IF conditions = <<>> THEN filters
  ELSE LET c == Head(conditions) IN
       WhereConditions_ArraysOnly(
         IF c.isArray THEN Append(filters, c.items[1]) ELSE filters,
         Tail(conditions))

\* Lines 86-96: params.where.forEach(condition => ...); an array condition
\* is spread into query.where(...condition).
RECURSIVE WhereConditions(_, _)
WhereConditions(filters, conditions) ==
  IF conditions = <<>> THEN filters
  ELSE LET c == Head(conditions) IN
       WhereConditions(
         IF c.isArray THEN Append(filters, c.items[1])
                      ELSE WhereKeys(filters, c.items),
         Tail(conditions))

\* Lines 84-103: the filters added to the query, in order.
WhereFilters(where) ==
  CASE where.shape = "absent" -> <<>>
    [] where.shape = "list" -> WhereConditions(<<>>, where.conditions)
    [] where.shape = "mapping" -> WhereKeys(<<>>, where.pairs)

\* A translation that gives a lone field the descending direction.
OrderByOrderings_Descending(orderBy) ==
  CASE orderBy.shape = "absent" -> <<>>
    [] orderBy.shape = "string" -> <<<<orderBy.items[1][1], "desc">>>>
    [] orderBy.shape = "pair" -> orderBy.items
    [] orderBy.shape = "list" -> orderBy.items
    [] OTHER -> <<>>

\* Lines 105-120: the argument lists of the query.orderBy calls, in order.
\* A string is passed alone (the store's default direction applies), a pair
\* is spread, each pair of a list is spread; any other value adds nothing.
OrderByOrderings(orderBy) ==
  CASE orderBy.shape = "absent" -> <<>>
    [] orderBy.shape = "string" -> <<<<orderBy.items[1][1]>>>>
    [] orderBy.shape = "pair" -> orderBy.items
    [] orderBy.shape = "list" -> orderBy.items
    [] OTHER -> <<>>

\* Line 115: query.orderBy(...x) on an x that is not iterable throws a
\* TypeError before the query is issued.
OrderByThrows(orderBy) == orderBy.shape = "scalars"

\* Line 122: if (params.limit)
LimitApplies(limit) == limit # NoLimit /\ limit # 0

\* Lines 82-124: the query built from the descriptor.
GetByQuery(params) ==
  [filters |-> WhereFilters(params.where),
   orderings |-> OrderByOrderings(params.orderBy),
   limit |-> IF LimitApplies(params.limit) THEN params.limit ELSE NoLimit]

\* The store's evaluation of one filter on a document.
Satisfies(doc, filter) ==
  LET x == IF filter[1] = "id" THEN doc.id ELSE doc.v IN
  IF filter[2] = "!=" THEN x # filter[3] ELSE x = filter[3]

\* The documents the query's filters select.
Matching(entity, query) ==
  {k \in DOMAIN store[entity] :
     \A i \in 1 .. Len(query.filters) : Satisfies(store[entity][k], query.filters[i])}

\* Line 126: the snapshots query.get() may deliver.  With a cap the store
\* delivers `limit` of the selected documents (which ones is the orderings'
\* business; any choice is possible here); the code does not rely on the cap
\* (line 146), so the uncapped snapshot is a response too.
QueryYield(entity, query) ==
  LET m == Matching(entity, query)
      capped == query.limit # NoLimit
      n == IF capped /\ query.limit < Cardinality(m)
           THEN query.limit ELSE Cardinality(m)
  IN {[k \in ks |-> store[entity][k]] :
        ks \in {x \in SUBSET m : Cardinality(x) = n \/ x = m}}

\* A write that keeps the entry an id already has.
GetByCacheWrite_KeepExisting(part, snap) ==
  [k \in (DOMAIN part) \cup (DOMAIN snap) |->
     IF k \in DOMAIN part THEN part[k] ELSE Entry(clone(snap[k]).val, FALSE)]

\* Lines 131-134: every document of the snapshot is cloned into the partition.
GetByCacheWrite(part, snap) ==
  [k \in (DOMAIN part) \cup (DOMAIN snap) |->
     IF k \in DOMAIN snap THEN Entry(clone(snap[k]).val, FALSE) ELSE part[k]]

\* Lines 128-139: the list `data`, by document id: the partition's objects
\* with caching, the snapshot's documents without.
GetByData(useCache, snap) ==
  [k \in DOMAIN snap |-> IF useCache THEN clone(snap[k]).val ELSE snap[k]]

\* A result shaping that never unwraps the list.
GetByReturn_Wrapped(limit, data) == clone(List(data))

\* A result shaping that unwraps a single document whatever the limit is.
GetByReturn_AnyLimit(limit, data) ==
  IF Cardinality(DOMAIN data) = 1
  THEN clone(data[CHOOSE k \in DOMAIN data : TRUE])
  ELSE IF Cardinality(DOMAIN data) = 0 /\ limit = 1
       THEN [val |-> Null, same |-> FALSE]
       ELSE clone(List(data))

\* Lines 141-151: the value returned for `data`.
GetByReturn(limit, data) ==
  IF limit = 1
  THEN IF Cardinality(DOMAIN data) = 1
       THEN clone(data[CHOOSE k \in DOMAIN data : TRUE])
       ELSE IF Cardinality(DOMAIN data) = 0
            THEN [val |-> Null, same |-> FALSE]
            ELSE clone(List(data))
  ELSE clone(List(data))

\* The entries whose objects a returned value shares with the partition.
Shared(part, keys, ret) ==
  [k \in DOMAIN part |->
     IF ret.same /\ k \in keys /\ part[k].val.kind = "doc"
     THEN [part[k] EXCEPT !.live = TRUE] ELSE part[k]]

\* Lines 80-126: the query is built, then issued; `query` is the query the
\* store receives.
CallGetBy(acc, params) ==
  /\ acc \in accessors /\ HasFree
  /\ IF OrderByThrows(params.orderBy)
     THEN Return("getBy", acc, params, ErrorOf("TypeError"))
     ELSE calls' = [calls EXCEPT ![FreeSlot] =
                      Sent("getBy", acc, params) @@ ("query" :> GetByQuery(params))]
  /\ UNCHANGED <<accessors, cache, store>>

ResumeGetBy(r) ==
  LET snap == r.resp.value
      ret == GetByReturn(r.arg.limit, GetByData(r.acc.useCache, snap))
  IN
  [cache |-> IF r.acc.useCache
             THEN SetPart(r.acc.entity,
                          Shared(GetByCacheWrite(Part(r.acc.entity), snap),
                                 DOMAIN snap, ret))
             ELSE cache,
   result |-> ret.val]

\* ----------------------------------------------------------------- getAll
\* Lines 163-165.
GetAllCacheWrite(part, snap) ==
  [k \in (DOMAIN part) \cup (DOMAIN snap) |->
     IF k \in DOMAIN snap THEN Entry(clone(snap[k]).val, FALSE) ELSE part[k]]

\* Line 167: clone(Object.values(cache[entity])); line 174: clone(data).
GetAllReturn(useCache, part, snap) ==
  IF useCache
  THEN clone(List([k \in DOMAIN part |-> part[k].val]))
  ELSE clone(List(snap))

CallGetAll(acc) ==
  /\ acc \in accessors /\ HasFree
  /\ Start("getAll", acc, [all |-> TRUE])
  /\ UNCHANGED <<accessors, cache, store>>

ResumeGetAll(r) ==
  LET snap == r.resp.value
      part == IF r.acc.useCache
              THEN GetAllCacheWrite(Part(r.acc.entity), snap) ELSE EmptyMap
      ret == GetAllReturn(r.acc.useCache, part, snap)
  IN
  [cache |-> IF r.acc.useCache
             THEN SetPart(r.acc.entity, Shared(part, DOMAIN part, ret))
             ELSE cache,
   result |-> ret.val]

\* ------------------------------------------------------------- deleteById
\* A delete that evicts the entry instead of leaving a tombstone.
DeleteByIdCacheWrite_Evict(part, id) == MapDel(part, id)

\* Line 184: cache[entity][id] = undefined
DeleteByIdCacheWrite(part, id) == MapPut(part, id, Entry(Undef, FALSE))

CallDeleteById(acc, id) ==
  /\ acc \in accessors /\ HasFree
  /\ Start("deleteById", acc, [id |-> id])
  /\ UNCHANGED <<accessors, cache, store>>

ResumeDeleteById(r) ==
  [cache |-> IF r.acc.useCache
             THEN SetPart(r.acc.entity,
                          DeleteByIdCacheWrite(Part(r.acc.entity), r.arg.id))
             ELSE cache,
   result |-> r.resp.value]

\* --------------------------------------------------------------- editById
\* An update that leaves the cached entry in place.
EditByIdCacheWrite_Keep(part, id) == part

\* Line 201: delete cache[entity][id]
EditByIdCacheWrite(part, id) == MapDel(part, id)

CallEditById(acc, id, v) ==
  /\ acc \in accessors /\ HasFree
  /\ Start("editById", acc, [id |-> id, v |-> v])
  /\ UNCHANGED <<accessors, cache, store>>

\* A continuation that evicts the entry whatever the accessor's flag is.
ResumeEditById_AnyAccessor(r) ==
  [cache |-> IF r.acc.entity \in DOMAIN cache
             THEN SetPart(r.acc.entity,
                          EditByIdCacheWrite(Part(r.acc.entity), r.arg.id))
             ELSE cache,
   result |-> r.resp.value]

ResumeEditById(r) ==
  [cache |-> IF r.acc.useCache
             THEN SetPart(r.acc.entity,
                          EditByIdCacheWrite(Part(r.acc.entity), r.arg.id))
             ELSE cache,
   result |-> r.resp.value]

\* ------------------------------------------------------------- clearCache
\* Line 214: if (key)
Truthy(key) == key # NoId /\ key # ""

\* Lines 214-218.
ClearCacheWrite(part, key) ==
  IF Truthy(key) THEN MapDel(part, key) ELSE EmptyMap

clearCache(acc, key) ==
  /\ acc \in accessors /\ HasFree
  /\ cache' = IF acc.useCache
              THEN SetPart(acc.entity, ClearCacheWrite(Part(acc.entity), key))
              ELSE cache
  /\ Return("clearCache", acc, [id |-> key], Undef)
  /\ UNCHANGED <<accessors, store>>

\* -------------------------------------------------------------- the store
\* The store's handling of a request: the new contents of the collection
\* and the response, when the request succeeds.
StoreEffect(r) ==
  LET coll == store[r.acc.entity] IN
  CASE r.op = "add" -> [coll |-> MapPut(coll, r.arg.id, r.arg), value |-> Ack]
    [] r.op = "getById" ->
         [coll |-> coll,
          value |-> IF r.arg.id \in DOMAIN coll THEN coll[r.arg.id] ELSE Undef]
    [] r.op = "deleteById" -> [coll |-> MapDel(coll, r.arg.id), value |-> Ack]
    [] r.op = "editById" ->
         [coll |-> [coll EXCEPT ![r.arg.id].v = r.arg.v], value |-> Ack]
    [] r.op = "getAll" -> [coll |-> coll, value |-> coll]

\* update() of a document that does not exist fails.
StoreAccepts(r) == r.op = "editById" => r.arg.id \in DOMAIN store[r.acc.entity]

Served(r, ok, value) ==
  [r EXCEPT !.phase = "served", !.resp = [ok |-> ok, value |-> value]]

Serve(s) ==
  LET r == calls[s] IN
  /\ r.phase = "sent"
  /\ \/ /\ calls' = [calls EXCEPT ![s] = Served(r, FALSE, Undef)]
        /\ UNCHANGED store
     \/ /\ r.op = "getBy"
        /\ \E snap \in QueryYield(r.acc.entity, r.query) :
             calls' = [calls EXCEPT ![s] = Served(r, TRUE, snap)]
        /\ UNCHANGED store
     \/ /\ r.op # "getBy" /\ StoreAccepts(r)
        /\ calls' = [calls EXCEPT ![s] = Served(r, TRUE, StoreEffect(r).value)]
        /\ store' = [store EXCEPT ![r.acc.entity] = StoreEffect(r).coll]
  /\ UNCHANGED <<accessors, cache>>

\* The code after the await, when the store call succeeded.
Continuation(r) ==
  CASE r.op = "add" -> ResumeAdd(r)
    [] r.op = "getById" -> ResumeGetById(r)
    [] r.op = "getBy" -> ResumeGetBy(r)
    [] r.op = "getAll" -> ResumeGetAll(r)
    [] r.op = "deleteById" -> ResumeDeleteById(r)
    [] r.op = "editById" -> ResumeEditById(r)

\* An add that writes the partition before the store has confirmed.
Rejection_Speculative(r) ==
  [cache |-> IF r.op = "add" THEN ResumeAdd(r).cache ELSE cache,
   result |-> ErrorOf("store")]

\* The await of a failed store call throws: the rest of the function does
\* not run and the caller receives the store's error.
Rejection(r) == [cache |-> cache, result |-> ErrorOf("store")]

Resume(s) ==
  LET r == calls[s]
      out == IF r.resp.ok THEN Continuation(r) ELSE Rejection(r)
  IN
  /\ r.phase = "served"
  /\ calls' = [calls EXCEPT ![s] = Completed(r.op, r.acc, r.arg, out.result, TRUE)]
  /\ cache' = out.cache
  /\ UNCHANGED <<accessors, store>>

\* ------------------------------------------------------------- the caller
\* The caller writes a field of an object it holds that is also a partition
\* entry.
Mutate(entity, id, v) ==
  /\ entity \in DOMAIN cache /\ id \in DOMAIN cache[entity]
  /\ cache[entity][id].live /\ cache[entity][id].val.v # v
  /\ cache' = [cache EXCEPT ![entity][id].val.v = v]
  /\ UNCHANGED <<accessors, store, calls>>

AddInputs == {Doc(id, v) : id \in Ids \cup {NoId}, v \in InputVals}

Create == \E e \in Entities, u \in BOOLEAN : helperCreator(e, u)
DoAdd == \E acc \in accessors, d \in AddInputs : CallAdd(acc, d)
DoGetById == \E acc \in accessors, id \in Ids : CallGetById(acc, id)
DoGetBy == \E acc \in accessors, p \in Params : CallGetBy(acc, p)
DoGetAll == \E acc \in accessors : CallGetAll(acc)
DoDeleteById == \E acc \in accessors, id \in Ids : CallDeleteById(acc, id)
DoEditById == \E acc \in accessors, id \in Ids, v \in InputVals : CallEditById(acc, id, v)
DoClearCache == \E acc \in accessors, key \in Ids \cup {NoId} : clearCache(acc, key)
DoMutate == \E e \in Entities, id \in Ids, v \in InputVals : Mutate(e, id, v)
DoServe == \E s \in Slots : Serve(s)
DoResume == \E s \in Slots : Resume(s)

Calls ==
  \/ Create
  \/ DoAdd
  \/ DoGetById
  \/ DoGetBy
  \/ DoGetAll
  \/ DoDeleteById
  \/ DoEditById
  \/ DoClearCache
  \/ DoMutate

\* One call at a time: a call starts only when none is in flight.
SeqNext == (AllIdle /\ Calls) \/ DoServe \/ DoResume

SeqSpec == Init /\ [][SeqNext]_vars

\* Overlapping calls: a caching accessor of one collection has been built,
\* and up to MaxInFlight calls on one id are in flight at a time.
OverlapIds == {"a"}
OverlapVals == {PlainVal, NaNVal}
OverlapAccessor == Accessor("users", TRUE)

OverlapInit ==
  /\ accessors = {OverlapAccessor}
  /\ cache = [e \in {OverlapAccessor.entity} |-> EmptyMap]
  /\ store = [e \in Entities |-> EmptyMap]
  /\ calls = [s \in Slots |-> Idle]

OverlapAdd == \E id \in OverlapIds, v \in OverlapVals : CallAdd(OverlapAccessor, Doc(id, v))
OverlapGetById == \E id \in OverlapIds : CallGetById(OverlapAccessor, id)
OverlapDeleteById == \E id \in OverlapIds : CallDeleteById(OverlapAccessor, id)
OverlapEditById == \E id \in OverlapIds, v \in OverlapVals : CallEditById(OverlapAccessor, id, v)

Next ==
  \/ OverlapAdd
  \/ OverlapGetById
  \/ OverlapDeleteById
  \/ OverlapEditById
  \/ DoServe
  \/ DoResume

Spec == OverlapInit /\ [][Next]_vars

\* Query translation: a non-caching accessor of one collection has been
\* built; documents are added and queried with descriptors of every shape,
\* one call at a time.
QueryAccessor == Accessor("users", FALSE)
QueryVals == {PlainVal, NaNVal}

QueryWheres ==
  { NoWhere,
    WhereMapping(<<>>),
    WhereMapping(<<<<"v", PlainVal>>>>),
    WhereMapping(<<<<"v", PlainVal>>, <<"id", "a">>>>),
    WhereList(<<>>),
    WhereList(<<ArrayCondition(<<"v", "!=", PlainVal>>)>>),
    WhereList(<<MappingCondition(<<<<"id", "a">>, <<"v", PlainVal>>>>),
                ArrayCondition(<<"v", "!=", NaNVal>>)>>),
    WhereList(<<ArrayCondition(<<"v", "!=", NaNVal>>),
                MappingCondition(<<<<"id", "a">>>>)>>) }

QueryOrderBys ==
  { NoOrderBy,
    OrderByString("v"),
    OrderByPair(<<"v", "desc">>),
    OrderByList(<<<<"id", "asc">>>>),
    OrderByList(<<<<"v", "desc">>, <<"id", "asc">>>>),
    OrderByScalar,
    OrderByScalars }

QueryParams == [where : QueryWheres, orderBy : QueryOrderBys, limit : Limits]

QueryInit ==
  /\ accessors = {QueryAccessor}
  /\ cache = EmptyMap
  /\ store = [e \in Entities |-> EmptyMap]
  /\ calls = [s \in Slots |-> Idle]

QueryAdd == \E id \in Ids, v \in QueryVals : CallAdd(QueryAccessor, Doc(id, v))
QueryGetBy == \E p \in QueryParams : CallGetBy(QueryAccessor, p)

QueryNext == (AllIdle /\ (QueryAdd \/ QueryGetBy)) \/ DoServe \/ DoResume

QuerySpec == QueryInit /\ [][QueryNext]_vars

\* Overlapping reads: the collection holds one document or none, a caching
\* accessor has been built with an empty partition, and up to MaxInFlight
\* getById calls overlap; nothing writes the store.
ReadInit ==
  /\ accessors = {OverlapAccessor}
  /\ cache = [e \in {OverlapAccessor.entity} |-> EmptyMap]
  /\ store \in {[e \in Entities |-> m] :
                  m \in {EmptyMap} \cup
                        {MapPut(EmptyMap, id, Doc(id, v)) : id \in OverlapIds, v \in InputVals}}
  /\ calls = [s \in Slots |-> Idle]

ReadNext ==
  \/ OverlapGetById
  \/ DoServe
  \/ DoResume

ReadSpec == ReadInit /\ [][ReadNext]_vars

\* Several accessors per collection: caching accessors of two collections
\* are built in any order, each construction returning a new object (told
\* apart here by the number n), and used one call at a time.
PartEntities == {"users", "posts"}
MaxInstances == 2
PartIds == {"a"}
PartVals == {PlainVal, NaNVal}

\* Lines 225-239: helperCreator({ entity, useCache }) returning its n-th
\* object; the object's methods close over entity and useCache only.
Construct(entity, useCache, n) ==
  /\ [entity |-> entity, useCache |-> useCache, n |-> n] \notin accessors
  /\ cache' = Allocate(entity, useCache)
  /\ accessors' = accessors \cup {[entity |-> entity, useCache |-> useCache, n |-> n]}
  /\ UNCHANGED <<store, calls>>

PartInit ==
  /\ accessors = {}
  /\ cache = EmptyMap
  /\ store = [e \in PartEntities |-> EmptyMap]
  /\ calls = [s \in Slots |-> Idle]

PartConstruct == \E e \in PartEntities, n \in 1 .. MaxInstances : Construct(e, TRUE, n)
PartAdd == \E acc \in accessors, id \in PartIds, v \in PartVals : CallAdd(acc, Doc(id, v))
PartGetById == \E acc \in accessors, id \in PartIds : CallGetById(acc, id)
PartEditById == \E acc \in accessors, id \in PartIds, v \in PartVals : CallEditById(acc, id, v)

PartCalls ==
  \/ PartConstruct
  \/ PartAdd
  \/ PartGetById
  \/ PartEditById

PartNext == (AllIdle /\ PartCalls) \/ DoServe \/ DoResume

PartSpec == PartInit /\ [][PartNext]_vars

\* Caching accessors only: a caching accessor of one collection has been
\* built, and every document of the store is written through it, one call
\* at a time.
CachedAdd == \E d \in AddInputs : CallAdd(OverlapAccessor, d)
CachedGetById == \E id \in Ids : CallGetById(OverlapAccessor, id)
CachedGetBy == \E p \in Params : CallGetBy(OverlapAccessor, p)
CachedGetAll == CallGetAll(OverlapAccessor)
CachedDeleteById == \E id \in Ids : CallDeleteById(OverlapAccessor, id)
CachedEditById == \E id \in Ids, v \in InputVals : CallEditById(OverlapAccessor, id, v)
CachedClearCache == \E key \in Ids \cup {NoId} : clearCache(OverlapAccessor, key)

CachedCalls ==
  \/ CachedAdd
  \/ CachedGetById
  \/ CachedGetBy
  \/ CachedGetAll
  \/ CachedDeleteById
  \/ CachedEditById
  \/ CachedClearCache

CachedNext == (AllIdle /\ CachedCalls) \/ DoServe \/ DoResume

CachedSpec == OverlapInit /\ [][CachedNext]_vars

\* ------------------------------------------------------- the action facade
\* db.method(...args): the first step of the accessor's method.
Invoke(db, method, args) ==
  CASE method = "add" -> CallAdd(db, args[1])
    [] method = "getBy" -> CallGetBy(db, args[1])
    [] method = "getById" -> CallGetById(db, args[1])
    [] method = "getAll" -> CallGetAll(db)
    [] method = "deleteById" -> CallDeleteById(db, args[1])
    [] method = "editById" -> CallEditById(db, args[1], args[2])
    [] method = "clearCache" -> clearCache(db, args[1])

FacadeNames ==
  {"add", "getBy", "getById", "getAll", "deleteById", "editById", "clearCache"}

\* A facade whose deleteById calls the accessor's getById.
actionsHelperCreator_Crossed(db) ==
  [name \in FacadeNames |->
     [db |-> db,
      method |-> IF name = "deleteById" THEN "getById" ELSE name,
      arity |-> CASE name = "getAll" -> 0 [] name = "editById" -> 2 [] OTHER -> 1]]

\* Lines 243-281: each function of the facade holds db, calls the method of
\* its own name and hands over its declared parameters.
actionsHelperCreator(db) ==
  [name \in FacadeNames |->
     [db |-> db,
      method |-> name,
      arity |-> CASE name = "getAll" -> 0 [] name = "editById" -> 2 [] OTHER -> 1]]

\* actionsHelperCreator(db)[name](...args); the function returns the
\* accessor's promise, so the call's remaining steps and its outcome are the
\* accessor's.
FacadeCall(db, name, args) ==
  LET f == actionsHelperCreator(db)[name] IN
  Invoke(f.db, f.method, SubSeq(args, 1, f.arity))

\* The argument lists the facade functions are called with.
FacadeIds == {"a"}
FacadeVals == {PlainVal, NaNVal}
FacadeArgs(name) ==
  CASE name = "add" -> {<<Doc(id, v)>> : id \in FacadeIds \cup {NoId}, v \in FacadeVals}
    [] name = "getBy" -> {<<p>> : p \in Params}
    [] name = "getById" -> {<<id>> : id \in FacadeIds}
    [] name = "getAll" -> {<<>>}
    [] name = "deleteById" -> {<<id>> : id \in FacadeIds}
    [] name = "editById" -> {<<id, v>> : id \in FacadeIds, v \in FacadeVals}
    [] name = "clearCache" -> {<<key>> : key \in FacadeIds \cup {NoId}}

Through(name) ==
  \E db \in accessors, args \in FacadeArgs(name) : FacadeCall(db, name, args)

ActionAdd == Through("add")
ActionGetBy == Through("getBy")
ActionGetById == Through("getById")
ActionGetAll == Through("getAll")
ActionDeleteById == Through("deleteById")
ActionEditById == Through("editById")
ActionClearCache == Through("clearCache")

FacadeCalls ==
  \/ Create
  \/ ActionAdd
  \/ ActionGetBy
  \/ ActionGetById
  \/ ActionGetAll
  \/ ActionDeleteById
  \/ ActionEditById
  \/ ActionClearCache

\* Accessors are built and then used through their facades only, one call at
\* a time.
FacadeNext == (AllIdle /\ FacadeCalls) \/ DoServe \/ DoResume

FacadeSpec == Init /\ [][FacadeNext]_vars

\* ================================================================ claims
\* A call of slot s finishes in this step / finishes without an error.
Finishes(s) == calls'[s].phase = "done" /\ calls'[s] # calls[s]
Succeeds(s) == Finishes(s) /\ calls'[s].result.kind # "error"

Done(s) == calls[s].phase = "done"
DoneOk(s) == Done(s) /\ calls[s].result.kind # "error"

\* A returned list holds exactly the documents of the snapshot.
ListOf(res, snap) ==
  /\ res.kind = "list" /\ DOMAIN res.items = DOMAIN snap
  /\ \A k \in DOMAIN snap : res.items[k].kind = "doc" /\ res.items[k].id = snap[k].id

\* What a direct store read of id k in collection e returns.
StoreDoc(e, k) == IF k \in DOMAIN store[e] THEN store[e][k] ELSE Undef

\* C1 (as claimed): when add(d) of a caching accessor succeeds, the getById(d.id)
\* that follows is served from the partition, without a store read, and
\* returns a value equal to d.
C1_AddThenGetById ==
  [][\A s \in Slots :
       ( Succeeds(s) /\ calls'[s].op = "add" /\ calls[s].acc.useCache )
       => \A acc \in {calls[s].acc}, d \in {calls[s].arg} :
            ( /\ GetByIdHit(acc, d.id)
              /\ GetByIdCached(Part(acc.entity), d.id).val = d )'
    ]_vars

\* C2: when editById(k, partial) of a caching accessor succeeds, the partition
\* has no entry for k, so the getById(k) that follows is not served from the
\* partition; the store then holds the merged document, and a getById that
\* read the store returns the store's document.
C2_EditEvicts ==
  [][\A s \in Slots :
       /\ ( Succeeds(s) /\ calls'[s].op = "editById" /\ calls[s].acc.useCache )
          => \A acc \in {calls[s].acc}, k \in {calls[s].arg.id}, v \in {calls[s].arg.v} :
               ( /\ k \notin DOMAIN Part(acc.entity)
                 /\ ~GetByIdHit(acc, k)
                 /\ StoreDoc(acc.entity, k) = Doc(k, v) )'
       /\ ( Succeeds(s) /\ calls'[s].op = "getById" /\ calls'[s].storeCalled )
          => \A acc \in {calls[s].acc}, k \in {calls[s].arg.id} :
               calls'[s].result = StoreDoc(acc.entity, k)'
    ]_vars

\* C2 witness: an editById of a caching accessor has succeeded on an id whose
\* partition entry held a document, and the entry is gone.
C2_Witness ==
  \E s \in Slots :
    /\ DoneOk(s) /\ calls[s].op = "editById" /\ calls[s].acc.useCache
    /\ calls[s].before = "doc"
    /\ calls[s].arg.id \notin DOMAIN Part(calls[s].acc.entity)

\* C3: when deleteById(k) of a caching accessor succeeds, the partition holds
\* a tombstone for k (an entry, unlike for an id never fetched), and the
\* getById(k) that follows is served from it, without a store read, and
\* returns the not-found value.
C3_DeleteLeavesTombstone ==
  [][\A s \in Slots :
       ( Succeeds(s) /\ calls'[s].op = "deleteById" /\ calls[s].acc.useCache )
       => \A acc \in {calls[s].acc}, k \in {calls[s].arg.id} :
            ( /\ k \in DOMAIN Part(acc.entity)
              /\ Part(acc.entity)[k].val = Undef
              /\ GetByIdHit(acc, k)
              /\ GetByIdCached(Part(acc.entity), k).val = Undef )'
    ]_vars

\* C3 witness: a getById of a caching accessor was served from a tombstone:
\* it returned not-found without a store read.
C3_Witness ==
  \E s \in Slots :
    /\ DoneOk(s) /\ calls[s].op = "getById" /\ calls[s].acc.useCache
    /\ calls[s].before = "tombstone"
    /\ ~calls[s].storeCalled /\ calls[s].result = Undef

\* C4 (as claimed): no partition entry is an object the caller also holds.
C4_NoSharedEntry ==
  \A e \in DOMAIN cache : \A k \in DOMAIN cache[e] : ~cache[e][k].live

\* C5 (as claimed): clearCache(k) of a caching accessor, for any id k, removes
\* the entry of k and leaves every other entry as it is; clearCache() empties
\* the partition; getById of a removed id is not served from the partition.
C5_ClearCacheFrame ==
  [][\A s \in Slots :
       ( Finishes(s) /\ calls'[s].op = "clearCache" /\ calls'[s].acc.useCache )
       => \A acc \in {calls'[s].acc}, key \in {calls'[s].arg.id} :
            /\ cache'[acc.entity] =
                 IF key = NoId THEN EmptyMap ELSE MapDel(cache[acc.entity], key)
            /\ key # NoId => ~GetByIdHit(acc, key)'
    ]_vars

\* C6 (as claimed): when getAll() of a caching accessor succeeds, the
\* partition entry of every document in the store equals that document.
C6_GetAllRepopulates ==
  [][\A s \in Slots :
       ( Succeeds(s) /\ calls'[s].op = "getAll" /\ calls[s].acc.useCache )
       => \A acc \in {calls[s].acc} :
            ( \A k \in DOMAIN store[acc.entity] :
                /\ k \in DOMAIN Part(acc.entity)
                /\ Part(acc.entity)[k].val = store[acc.entity][k] )'
    ]_vars

\* C7: a getBy with limit === 1 that succeeds returns null when the snapshot
\* is empty, a document (not a list) when the snapshot holds one document,
\* and the list of all the snapshot's documents when it holds more; with and
\* without caching.
C7_LimitOneShape ==
  [][\A s \in Slots :
       ( Succeeds(s) /\ calls'[s].op = "getBy" /\ calls'[s].arg.limit = 1 )
       => LET snap == calls[s].resp.value
              res == calls'[s].result
              n == Cardinality(DOMAIN snap)
          IN /\ n = 0 => res = Null
             /\ n = 1 => res.kind = "doc" /\ \E k \in DOMAIN snap : res.id = snap[k].id
             /\ n > 1 => ListOf(res, snap)
    ]_vars

\* C7 witness: a getBy with limit 1 whose snapshot held more than one
\* document has returned the list.
C7_Witness ==
  \E s \in Slots :
    /\ DoneOk(s) /\ calls[s].op = "getBy" /\ calls[s].arg.limit = 1
    /\ calls[s].result.kind = "list"
    /\ Cardinality(DOMAIN calls[s].result.items) > 1

\* C8: a getBy with no limit, or a limit other than 1, that succeeds returns
\* a list of the snapshot's documents: the empty list for an empty snapshot,
\* never null and never a bare document.
C8_OtherLimitList ==
  [][\A s \in Slots :
       ( Succeeds(s) /\ calls'[s].op = "getBy" /\ calls'[s].arg.limit # 1 )
       => LET snap == calls[s].resp.value
              res == calls'[s].result
          IN ListOf(res, snap)
    ]_vars

\* C8 witness: a getBy with limit 2 whose snapshot held exactly one document
\* has returned a list of one document.
C8_Witness ==
  \E s \in Slots :
    /\ DoneOk(s) /\ calls[s].op = "getBy" /\ calls[s].arg.limit = 2
    /\ calls[s].result.kind = "list"
    /\ Cardinality(DOMAIN calls[s].result.items) = 1

\* C9: no step of a call changes the cache before the store has answered,
\* and a call whose store request failed finishes with the store's error
\* and leaves the cache as it is.
C9_StoreFailureLeavesCache ==
  [][\A s \in Slots :
       /\ ( calls'[s] # calls[s] /\ calls'[s].phase \in {"sent", "served"} )
          => cache' = cache
       /\ ( calls[s].phase = "served" /\ ~calls[s].resp.ok /\ calls'[s] # calls[s] )
          => /\ cache' = cache
             /\ calls'[s].phase = "done"
             /\ calls'[s].result = ErrorOf("store")
    ]_vars

\* C9 witness: an add of a caching accessor has failed at the store over an
\* id the partition holds a document for.
C9_Witness ==
  \E s \in Slots :
    /\ Done(s) /\ calls[s].op = "add" /\ calls[s].acc.useCache
    /\ calls[s].result = ErrorOf("store") /\ calls[s].before = "doc"

\* C10: an add of a document without an id finishes at once with an error,
\* issues no store request, and leaves the store and the cache as they are.
C10_AddWithoutId ==
  [][\A s \in Slots :
       ( calls'[s] # calls[s] /\ calls'[s].op = "add" /\ calls'[s].arg.id = NoId )
       => /\ calls'[s].phase = "done"
          /\ calls'[s].result.kind = "error"
          /\ ~calls'[s].storeCalled
          /\ store' = store /\ cache' = cache
    ]_vars

\* C10 witness: an add of a document without an id has been rejected while
\* the partition of its accessor held an entry.
C10_Witness ==
  \E s \in Slots :
    /\ Done(s) /\ calls[s].op = "add" /\ calls[s].arg.id = NoId
    /\ calls[s].result.kind = "error" /\ calls[s].acc.useCache
    /\ DOMAIN Part(calls[s].acc.entity) # {}

\* A getBy call of slot s is issued in this step.
Issues(s) ==
  /\ calls'[s] # calls[s] /\ ~InFlight(s)
  /\ calls'[s].op = "getBy"

\* C11: a getBy whose orderBy is neither a string, a [field, direction] pair
\* nor a list of such pairs fails at once with an error and issues no store
\* query.
C11_MalformedOrderByFails ==
  [][\A s \in Slots :
       ( Issues(s) /\ calls'[s].arg.orderBy.shape \in {"scalar", "scalars"} )
       => /\ calls'[s].phase = "done"
          /\ calls'[s].result.kind = "error"
          /\ ~calls'[s].storeCalled
    ]_vars

\* The filters the words of C17 name: one equality filter per key of a
\* mapping; for a list, what each condition yields, in list order.
EqualityFilters(pairs) ==
  [i \in 1 .. Len(pairs) |-> <<pairs[i][1], "=", pairs[i][2]>>]

RECURSIVE Flatten(_)
Flatten(seqs) == IF Len(seqs) = 0 THEN <<>> ELSE Head(seqs) \o Flatten(Tail(seqs))

ExpectedFilters(where) ==
  CASE where.shape = "absent" -> <<>>
    [] where.shape = "mapping" -> EqualityFilters(where.pairs)
    [] where.shape = "list" ->
         Flatten([i \in 1 .. Len(where.conditions) |->
                    LET c == where.conditions[i] IN
                    IF c.isArray THEN <<c.items[1]>> ELSE EqualityFilters(c.items)])

\* C17: the query a getBy issues carries exactly the filters its where
\* names: none when where is absent, one equality filter per key of a
\* mapping, and for a list the filters of its conditions in list order
\* (mappings as equality filters, triples verbatim); a snapshot the store
\* delivers for it holds only documents that pass every one of them.
C17_WhereTranslation ==
  [][\A s \in Slots :
       /\ ( Issues(s) /\ calls'[s].phase = "sent" )
          => \A want \in {ExpectedFilters(calls'[s].arg.where)} :
               /\ Len(calls'[s].query.filters) = Len(want)
               /\ \A i \in 1 .. Len(want) : calls'[s].query.filters[i] = want[i]
       /\ ( calls[s].op = "getBy" /\ calls[s].phase = "sent"
            /\ calls'[s].phase = "served" /\ calls'[s].resp.ok )
          => \A want \in {ExpectedFilters(calls[s].arg.where)} :
               \A k \in DOMAIN calls'[s].resp.value :
                 \A i \in 1 .. Len(want) :
                   LET x == IF want[i][1] = "id" THEN calls'[s].resp.value[k].id
                                                 ELSE calls'[s].resp.value[k].v
                   IN IF want[i][2] = "!=" THEN x # want[i][3] ELSE x = want[i][3]
    ]_vars

\* C17 witness: a getBy whose where lists a two-key mapping and then a
\* triple has issued a query with three filters and has been served some
\* but not all of the documents of the collection.
C17_Witness ==
  \E s \in Slots :
    /\ calls[s].op = "getBy" /\ calls[s].phase = "served" /\ calls[s].resp.ok
    /\ calls[s].arg.where.shape = "list"
    /\ Len(calls[s].arg.where.conditions) = 2
    /\ ~calls[s].arg.where.conditions[1].isArray
    /\ Len(calls[s].query.filters) = 3
    /\ DOMAIN calls[s].resp.value # {}
    /\ DOMAIN calls[s].resp.value # DOMAIN store[calls[s].acc.entity]

\* C18: the query a getBy issues carries the orderings its orderBy names:
\* none when orderBy is absent, the field alone (the default direction) for
\* a string, the pair for a [field, direction] pair, the pairs in list order
\* for a list of pairs; a limit (a positive integer) is the query's cap, and
\* with no limit the query has no cap.
C18_OrderByLimitTranslation ==
  [][\A s \in Slots :
       ( Issues(s) /\ calls'[s].phase = "sent" )
       => \A o \in {calls'[s].arg.orderBy}, q \in {calls'[s].query} :
            /\ o.shape = "absent" => q.orderings = <<>>
            /\ o.shape = "string" =>
                 Len(q.orderings) = 1 /\ q.orderings[1] = <<o.items[1][1]>>
            /\ o.shape = "pair" =>
                 Len(q.orderings) = 1 /\ q.orderings[1] = o.items[1]
            /\ o.shape = "list" =>
                 /\ Len(q.orderings) = Len(o.items)
                 /\ \A i \in 1 .. Len(o.items) : q.orderings[i] = o.items[i]
            /\ calls'[s].arg.limit > 0 => q.limit = calls'[s].arg.limit
            /\ calls'[s].arg.limit = NoLimit => q.limit = NoLimit
    ]_vars

\* C18 witness: a getBy with a list of two pairs and limit 2 is in flight
\* with two orderings and the cap 2.
C18_Witness ==
  \E s \in Slots :
    /\ calls[s].op = "getBy" /\ calls[s].phase = "sent"
    /\ calls[s].arg.orderBy.shape = "list" /\ Len(calls[s].arg.orderBy.items) = 2
    /\ calls[s].arg.limit = 2
    /\ Len(calls[s].query.orderings) = 2 /\ calls[s].query.limit = 2


\* C12: no step of a call made through a non-caching accessor changes the
\* cache (clearCache included); its getById always issues a store read, and
\* when the read succeeds returns the document the store holds (undefined
\* when it holds none).
C12_NonCachingIgnoresCache ==
  [][\A s \in Slots :
       ( calls'[s] # calls[s] /\ calls'[s].op # "idle" /\ ~calls'[s].acc.useCache )
       => /\ cache' = cache
          /\ calls'[s].op = "getById" => calls'[s].storeCalled
          /\ ( calls'[s].op = "getById" /\ Succeeds(s) )
             => \A r \in {calls'[s]} : r.result = StoreDoc(r.acc.entity, r.arg.id)
    ]_vars

\* C12 witness: a getById through a non-caching accessor has returned the
\* store's document although the partition of the same collection holds
\* another value under that id.
C12_Witness ==
  \E s \in Slots :
    /\ DoneOk(s) /\ calls[s].op = "getById" /\ ~calls[s].acc.useCache
    /\ calls[s].result.kind = "doc"
    /\ calls[s].acc.entity \in DOMAIN cache
    /\ calls[s].arg.id \in DOMAIN Part(calls[s].acc.entity)
    /\ Part(calls[s].acc.entity)[calls[s].arg.id].val # calls[s].result

\* C13: a step is a call of the facade function `name` on the accessor db
\* with some arguments exactly when it is the call of db's method `name`
\* with the same arguments: the same store request is issued (or none), the
\* same cache state results, the same value or error is returned.
C13_FacadeDelegates ==
  [][\A db \in accessors, name \in FacadeNames :
       \A args \in FacadeArgs(name) :
         FacadeCall(db, name, args) <=> Invoke(db, name, args)
    ]_vars

\* C13 witness: a deleteById made through the facade of a caching accessor
\* has run to its end: the store request was issued, the document is gone
\* from the store and the entry that was cached is a tombstone.
C13_Witness ==
  \E s \in Slots :
    /\ DoneOk(s) /\ calls[s].op = "deleteById" /\ calls[s].acc.useCache
    /\ calls[s].storeCalled /\ calls[s].before = "doc"
    /\ calls[s].arg.id \notin DOMAIN store[calls[s].acc.entity]
    /\ Part(calls[s].acc.entity)[calls[s].arg.id].val = Undef

\* C14 (as claimed): when getAll() of a caching accessor succeeds, the
\* partition holds entries for the fetched documents and for no other id,
\* and the list returned holds the fetched documents and nothing else.
C14_GetAllOverwritesPartition ==
  [][\A s \in Slots :
       ( Succeeds(s) /\ calls'[s].op = "getAll" /\ calls[s].acc.useCache )
       => \A acc \in {calls[s].acc}, snap \in {calls[s].resp.value} :
            /\ DOMAIN cache'[acc.entity] = DOMAIN snap
            /\ ListOf(calls'[s].result, snap)
    ]_vars

C16_GetByFillsCache ==
  [][\A s \in Slots :
       ( Succeeds(s) /\ calls'[s].op = "getBy" /\ calls[s].acc.useCache )
       => \A acc \in {calls[s].acc}, snap \in {calls[s].resp.value},
             res \in {calls'[s].result} :
            \A k \in DOMAIN snap :
              ( /\ k \in DOMAIN Part(acc.entity)
                /\ Part(acc.entity)[k].val.kind = "doc"
                /\ Part(acc.entity)[k].val.id = snap[k].id
                /\ GetByIdHit(acc, k)
                /\ GetByIdCached(Part(acc.entity), k).val
                     = IF res.kind = "list" THEN res.items[k] ELSE res )'
    ]_vars

\* C16 witness: a getBy of a caching accessor has returned a list of two
\* documents, one of them with a value the JSON round trip changes, and the
\* partition holds both as returned.
C16_Witness ==
  \E s \in Slots :
    /\ DoneOk(s) /\ calls[s].op = "getBy" /\ calls[s].acc.useCache
    /\ calls[s].result.kind = "list"
    /\ Cardinality(DOMAIN calls[s].result.items) = 2
    /\ \E k \in DOMAIN calls[s].result.items :
         store[calls[s].acc.entity][k].v = NaNVal
    /\ \A k \in DOMAIN calls[s].result.items :
         Part(calls[s].acc.entity)[k].val = calls[s].result.items[k]

\* C19 (as claimed): when two getById(x) that both missed the partition and
\* read the store have both returned, no write to x having happened, the
\* partition entry of x equals the store's document and both calls returned
\* that document.
C19_OverlappingReadsAgree ==
  \A s \in Slots, t \in Slots :
    ( /\ s # t /\ DoneOk(s) /\ DoneOk(t)
      /\ calls[s].op = "getById" /\ calls[t].op = "getById"
      /\ calls[s].storeCalled /\ calls[t].storeCalled
      /\ calls[s].arg = calls[t].arg )
    => LET e == calls[s].acc.entity
           x == calls[s].arg.id
       IN /\ x \in DOMAIN Part(e)
          /\ Part(e)[x].val = StoreDoc(e, x)
          /\ calls[s].result = StoreDoc(e, x)
          /\ calls[t].result = StoreDoc(e, x)

\* C20: when a getById(k) that read the store resumes after an editById(k)
\* has completed and the store's document is no longer the one it read, the
\* partition then holds (the clone of) the document it read, not the store's,
\* and a getById(k) now is served from the partition and returns that stale
\* value; a getById that finds an entry returns it without a store read.
C20_StaleAfterRace ==
  [][/\ \A s \in Slots, t \in Slots :
          ( /\ calls[s].phase = "served" /\ calls[s].op = "getById"
            /\ s # t /\ Succeeds(s)
            /\ calls[s].resp.value.kind = "doc"
            /\ DoneOk(t) /\ calls[t].op = "editById" /\ calls[t].arg.id = calls[s].arg.id
            /\ StoreDoc(calls[s].acc.entity, calls[s].arg.id) # calls[s].resp.value )
          => \A acc \in {calls[s].acc}, k \in {calls[s].arg.id},
                read \in {calls[s].resp.value} :
               ( /\ k \in DOMAIN Part(acc.entity)
                 /\ Part(acc.entity)[k].val = clone(read).val
                 /\ Part(acc.entity)[k].val # StoreDoc(acc.entity, k)
                 /\ GetByIdHit(acc, k)
                 /\ GetByIdCached(Part(acc.entity), k).val = clone(read).val )'
     /\ \A s \in Slots :
          ( /\ ~InFlight(s) /\ calls'[s].op = "getById" /\ calls'[s] # calls[s]
            /\ calls'[s].arg.id \in DOMAIN Part(calls'[s].acc.entity) )
          => /\ calls'[s].phase = "done" /\ ~calls'[s].storeCalled
             /\ calls'[s].result
                  = clone(Part(calls'[s].acc.entity)[calls'[s].arg.id].val).val
    ]_vars

\* C20 witness: no call is in flight; an editById(k) has succeeded and the
\* store holds its value; a getById(k) that read the store has returned the
\* document as it was before the edit, and the partition holds that
\* document, so that getById(k) is served the stale value from the partition.
C20_Witness ==
  \E s \in Slots, t \in Slots :
    /\ AllIdle
    /\ DoneOk(t) /\ calls[t].op = "editById"
    /\ DoneOk(s) /\ calls[s].op = "getById" /\ calls[s].storeCalled
    /\ calls[s].arg.id = calls[t].arg.id
    /\ LET e == calls[s].acc.entity
           k == calls[s].arg.id
       IN /\ StoreDoc(e, k).kind = "doc"
          /\ StoreDoc(e, k).v = calls[t].arg.v
          /\ calls[s].result.kind = "doc"
          /\ calls[s].result.v # calls[t].arg.v
          /\ k \in DOMAIN Part(e)
          /\ Part(e)[k].val = clone(calls[s].result).val
          /\ Part(e)[k].val # StoreDoc(e, k)
          /\ GetByIdHit(calls[s].acc, k)
          /\ GetByIdCached(Part(e), k).val # clone(StoreDoc(e, k)).val

\* C21: the partitions are those of the collections that have a caching
\* accessor; constructing a caching accessor leaves every existing partition
\* as it is and gives its collection an empty partition only when it has
\* none; and when an add through one caching accessor succeeds, a getById of
\* that id through any caching accessor of the same collection, built
\* before or after, is served from the partition with the value cached,
\* while the partitions of other collections are unchanged.
C21_OnePartitionPerName ==
  [][/\ DOMAIN cache' = {acc.entity : acc \in {a \in accessors' : a.useCache}}
     /\ accessors' # accessors
        => /\ \A e \in DOMAIN cache : cache'[e] = cache[e]
           /\ \A e \in (DOMAIN cache') \ (DOMAIN cache) : cache'[e] = EmptyMap
     /\ \A s \in Slots :
          ( Succeeds(s) /\ calls'[s].op = "add" /\ calls[s].acc.useCache )
          => \A doc \in {calls[s].arg}, e \in {calls[s].acc.entity} :
               /\ \A other \in {a \in accessors : a.useCache} :
                    IF other.entity = e
                    THEN ( /\ GetByIdHit(other, doc.id)
                           /\ GetByIdCached(Part(other.entity), doc.id).val
                                = clone(doc).val )'
                    ELSE cache'[other.entity] = cache[other.entity]
    ]_vars

\* C21 witness: two caching accessors of one collection and one of another
\* exist; a getById through the second accessor of the collection has been
\* served a document from the partition, which the partition of the other
\* collection does not hold.
C21_Witness ==
  \E s \in Slots :
    /\ DoneOk(s) /\ calls[s].op = "getById" /\ ~calls[s].storeCalled
    /\ calls[s].result.kind = "doc"
    /\ calls[s].acc.n = 2
    /\ \E first \in accessors : first.entity = calls[s].acc.entity /\ first.n = 1
    /\ \E e \in DOMAIN cache :
         e # calls[s].acc.entity /\ calls[s].arg.id \notin DOMAIN cache[e]

\* C22 (as claimed): when only caching accessors are used, one call at a
\* time, then whenever no call is in flight every partition entry agrees
\* with the store (a document entry equals the store's document of that id,
\* a not-found entry stands for an id the store does not hold), and a
\* getById served from the partition returns what a store read would.
C22_CacheAgreesWithStore ==
  AllIdle =>
    \A e \in DOMAIN cache :
      \A k \in DOMAIN cache[e] :
        /\ cache[e][k].val = StoreDoc(e, k)
        /\ GetByIdCached(cache[e], k).val = StoreDoc(e, k)

\* C23: no step of an add, editById or deleteById made through a
\* non-caching accessor changes the cache; when such a write succeeds and the
\* partition of its collection holds an entry for the written id, a getById
\* of that id through the caching accessor is still served from the
\* partition with the value held before the write; and a step of a call
\* that changes a partition is a step of a call through a caching accessor.
C23_NonCachingWriteLeavesEntry ==
  [][\A s \in Slots :
       /\ ( calls'[s] # calls[s] /\ calls'[s].op \in {"add", "editById", "deleteById"}
            /\ ~calls'[s].acc.useCache )
          => /\ cache' = cache
             /\ ( Succeeds(s) /\ Accessor(calls[s].acc.entity, TRUE) \in accessors )
                => \A e \in {calls[s].acc.entity}, k \in {calls[s].arg.id} :
                     k \in DOMAIN cache[e]
                     => \A pre \in {cache[e][k].val} :
                          ( /\ GetByIdHit(Accessor(e, TRUE), k)
                            /\ GetByIdCached(Part(e), k).val = clone(pre).val )'
       /\ ( calls'[s] # calls[s] /\ calls'[s].op # "idle" /\ cache' # cache )
          => calls'[s].acc.useCache
    ]_vars

\* C23 witness: an editById through a non-caching accessor has succeeded
\* and the store holds its value, while the partition of that collection
\* holds the document as it was before, so that a getById through the
\* caching accessor is served the old value.
C23_Witness ==
  \E s \in Slots :
    /\ DoneOk(s) /\ calls[s].op = "editById" /\ ~calls[s].acc.useCache
    /\ Accessor(calls[s].acc.entity, TRUE) \in accessors
    /\ LET e == calls[s].acc.entity
           k == calls[s].arg.id
       IN /\ StoreDoc(e, k).kind = "doc" /\ StoreDoc(e, k).v = calls[s].arg.v
          /\ k \in DOMAIN Part(e)
          /\ Part(e)[k].val.kind = "doc"
          /\ Part(e)[k].val.v # clone(StoreDoc(e, k)).val.v
          /\ GetByIdHit(Accessor(e, TRUE), k)

=============================================================================
